---------------------------- MODULE Spec2Model ----------------------------
(***************************************************************************)
(* Model of juejin_checkin.py: one run of JueJinAutoCheckin.run().         *)
(*                                                                         *)
(* The program is sequential.  Its state is the position in the code (pc), *)
(* the locals of the functions on the call stack, and the trace of         *)
(* observable events (log lines, platform requests, sleeps, notifier       *)
(* invocations, webhook POSTs).  The environment (transport, servers) is   *)
(* the nondeterministic input of the request and notification steps.       *)
(*                                                                         *)
(* Log and notification texts are f-strings in the source; a formatted     *)
(* text is modelled as a tag naming the template plus the tuple of the     *)
(* values interpolated into it.                                            *)
(***************************************************************************)
EXTENDS Integers, Sequences, FiniteSets, TLC

(***************************************************************************)
(* Program constants                                                       *)
(***************************************************************************)
RETRY_TIMES == 3
RETRY_INTERVAL == 60
\* err_no of "already checked in today" (elif err_no == 165001)
ALREADY_CHECKED_IN == 165001
\* response.text[:100]
NOTIFY_TEXT_LIMIT == 100

(***************************************************************************)
(* Bounds of the explored inputs                                           *)
(***************************************************************************)
\* longest raw (non-JSON) response text, in characters
MaxTextLen == 101
\* longest credential string JUEJIN_COOKIE, in characters
MaxCookieLen == 7

(***************************************************************************)
(* Python values                                                           *)
(***************************************************************************)
None == [t |-> "None"]
Unassigned == [t |-> "unassigned"]
NoException == [type |-> "none"]

\* A dict is a function from its keys to its values.
EmptyDict == <<>>
Opt(present, key, val) == IF present THEN key :> val ELSE EmptyDict

\* dict.get(key, default)
get(d, key, default) == IF key \in DOMAIN d THEN d[key] ELSE default

\* JSON values that matter to the code: an object (dict), or anything else
\* (null, list, number, ...), which has no .get attribute.
JDict(d) == [t |-> "dict", d |-> d]
JNull == [t |-> "null"]
JList == [t |-> "list"]
IsDict(v) == v.t = "dict"

(***************************************************************************)
(* Inputs: what the servers can answer                                     *)
(***************************************************************************)
StatusCodes == {200, 301, 500}
ErrNos == {0, ALREADY_CHECKED_IN, 500}
ErrMsgs == {"server busy"}
TextLens == {0} \cup ((NOTIFY_TEXT_LIMIT - 1) .. MaxTextLen)

UserDataDicts == { Opt(pu, "user_name", "alice") : pu \in BOOLEAN }
PointDataDicts ==
    { Opt(pi, "incr_point", 5) @@ Opt(ps, "sum_point", 105) :
        pi \in BOOLEAN, ps \in BOOLEAN }

\* the values of the "data" field, absent encoded by the empty set of choices
DataFields(dicts) ==
    {EmptyDict} \cup {"data" :> JNull} \cup { "data" :> JDict(d) : d \in dicts }

ErrNoFields == {EmptyDict} \cup { "err_no" :> n : n \in ErrNos }
ErrMsgFields == {EmptyDict} \cup { "err_msg" :> m : m \in ErrMsgs }

Objects(dicts) ==
    { JDict(a @@ b @@ c) :
        a \in ErrNoFields, b \in ErrMsgFields, c \in DataFields(dicts) }

\* a body is its raw text (only the length is kept) or the JSON it encodes
TextBody(n) == [kind |-> "text", len |-> n, value |-> JNull]
JsonBody(v) == [kind |-> "json", len |-> 0, value |-> v]

Bodies(dicts) ==
    { TextBody(n) : n \in TextLens } \cup {JsonBody(JList)}
        \cup { JsonBody(v) : v \in Objects(dicts) }

Response(s, b) == [t |-> "Response", status_code |-> s, body |-> b]
UserInfoResponses ==
    { Response(s, b) : s \in StatusCodes, b \in Bodies(UserDataDicts) }
CheckinResponses ==
    { Response(s, b) : s \in StatusCodes, b \in Bodies(PointDataDicts) }
ResponsesOf(m) == IF m = "GET" THEN UserInfoResponses ELSE CheckinResponses

\* outcomes of the webhook POST: status 200, another status, an exception
NotifyOutcomes == {"200", "non200", "exception"}

\* A string is the sequence of its characters.  The characters of a
\* credential that matter to _parse_cookie: a letter, '=', ';' and a space.
CookieChars == {"a", "=", ";", " "}
CookieStrings ==
    UNION { [1 .. n -> CookieChars] : n \in 0 .. MaxCookieLen }
\* the credentials of the runs explored: none, and "a=a; a"
RunCookies == {<<>>, <<"a", "=", "a", ";", " ", "a">>}


(***************************************************************************)
(* State                                                                   *)
(***************************************************************************)
VARIABLES
    pc,             \* position in the code
    juejin_cookie,  \* self.juejin_cookie
    cookies,        \* the cookies argument of the last requests.request
    feishu_token,   \* self.feishu_token is non-empty
    method,         \* request_with_retry: its method argument
    i,              \* request_with_retry: the loop variable
    user_response,  \* check_cookie_valid: response
    cookie_valid,   \* juejin_checkin: value of self.check_cookie_valid()
    response,       \* juejin_checkin: response
    ret,            \* value returned by juejin_checkin; <<>> before it returns
    exc,            \* exception propagating to run()
    events          \* everything observable the run did, in order

vars == <<pc, juejin_cookie, cookies, feishu_token, method, i, user_response, cookie_valid,
          response, ret, exc, events>>

(***************************************************************************)
(* Events                                                                  *)
(***************************************************************************)
Event(type, tag, args) == [type |-> type, tag |-> tag, args |-> args]
\* self.log(content)
LogEvent(tag, args) == Event("log", tag, args)
log(ev, tag, args) == Append(ev, LogEvent(tag, args))

\* Titles of the notifications (source text in the comment)
TITLE_FAILED == "checkin failed"        \* 签到失败
TITLE_SUCCESS == "checkin succeeded"    \* 签到成功
TITLE_ALREADY == "already checked in"   \* 已签到
TITLE_EXCEPTION == "process exception"  \* 流程异常

\* mutant: the token is not tested, the POST is made without one
send_feishu_notify_no_guard(ev, title, content, o) ==
    LET posted == Append(Append(ev, Event("notify", title, content)),
                         Event("post", "feishu", <<o>>))
    IN  IF o = "200"
        THEN log(posted, "feishu notification sent", <<>>)
        ELSE IF o = "non200"
        THEN log(posted, "feishu notification failed", <<>>)
        ELSE log(posted, "feishu notification exception", <<>>)

\* send_feishu_notify(title, content), the webhook answering with outcome o:
\* the events it appends.  Nothing it does raises: the POST is inside
\* try/except Exception.
send_feishu_notify(ev, title, content, o) ==
    LET called == Append(ev, Event("notify", title, content))
    IN  IF ~feishu_token
        THEN log(called, "feishu token missing, notification skipped", <<>>)
        ELSE LET posted == Append(called, Event("post", "feishu", <<o>>))
             IN  IF o = "200"
                 THEN log(posted, "feishu notification sent", <<>>)
                 ELSE IF o = "non200"
                 THEN log(posted, "feishu notification failed", <<>>)
                 ELSE log(posted, "feishu notification exception", <<>>)

(***************************************************************************)
(* _parse_cookie                                                           *)
(***************************************************************************)
\* the position of the first c in s from position p on, Len(s) + 1 if none
RECURSIVE find(_, _, _)
find(s, c, p) ==
    IF p > Len(s) THEN Len(s) + 1
    ELSE IF s[p] = c THEN p
    ELSE find(s, c, p + 1)

\* s.split(sep): the list of the pieces of s between the separators
RECURSIVE split(_, _)
split(s, sep) ==
    LET p == find(s, sep, 1)
    IN  IF p > Len(s) THEN <<s>>
        ELSE <<SubSeq(s, 1, p - 1)>> \o split(SubSeq(s, p + 1, Len(s)), sep)

\* s.lstrip(), s.rstrip(), s.strip()
RECURSIVE lstrip(_)
lstrip(s) == IF s # <<>> /\ s[1] = " " THEN lstrip(Tail(s)) ELSE s
RECURSIVE rstrip(_)
rstrip(s) ==
    IF s # <<>> /\ s[Len(s)] = " "
    THEN rstrip(SubSeq(s, 1, Len(s) - 1)) ELSE s
strip(s) == rstrip(lstrip(s))

\* "=" in item
HasEquals(item) == find(item, "=", 1) <= Len(item)
\* mutant: the item is split at its last '='
PairOf_last_equals(item) ==
    LET p == CHOOSE q \in 1 .. Len(item) :
                 /\ item[q] = "="
                 /\ \A q2 \in (q + 1) .. Len(item) : item[q2] # "="
    IN  <<SubSeq(item, 1, p - 1), SubSeq(item, p + 1, Len(item))>>
\* key, value = item.split("=", 1)
PairOf(item) ==
    LET p == find(item, "=", 1)
    IN  <<SubSeq(item, 1, p - 1), SubSeq(item, p + 1, Len(item))>>

\* cookie_dict[key] = value
SetItem(d, key, value) == (key :> value) @@ d

\* the for loop over the items, from left to right
RECURSIVE ParseItems(_, _)
ParseItems(items, cookie_dict) ==
    IF items = <<>> THEN cookie_dict
    ELSE LET item == strip(items[1])
         IN  IF HasEquals(item)
             THEN ParseItems(Tail(items),
                             SetItem(cookie_dict, PairOf(item)[1],
                                     PairOf(item)[2]))
             ELSE ParseItems(Tail(items), cookie_dict)

_parse_cookie(cookie) ==
    IF cookie = <<>> THEN EmptyDict
    ELSE ParseItems(split(cookie, ";"), EmptyDict)

(***************************************************************************)
(* request_with_retry                                                      *)
(***************************************************************************)
\* mutant: the loop makes one attempt more
HasNextAttempt_one_more(k) == k + 1 < RETRY_TIMES + 1
\* for i in range(RETRY_TIMES): there is a next iteration after i
HasNextAttempt(k) == k + 1 < RETRY_TIMES
\* mutant: sleeps only after the first failure
SleepsAfter_first_only(k) == k < RETRY_TIMES - 2
\* mutant: sleeps after every failure, the last one included
SleepsAfter_always(k) == TRUE
\* if i < RETRY_TIMES - 1: time.sleep(RETRY_INTERVAL)
SleepsAfter(k) == k < RETRY_TIMES - 1

\* mutant: a response with an error status is retried like an exception
ReturnResponse_retry_on_error(val) ==
    IF val # None /\ 400 <= val.status_code /\ HasNextAttempt(i)
    THEN /\ i' = i + 1
         /\ pc' = "request"
         /\ UNCHANGED <<user_response, response>>
    ELSE IF method = "GET"
    THEN /\ user_response' = val
         /\ pc' = "check_cookie_valid"
         /\ UNCHANGED <<i, response>>
    ELSE /\ response' = val
         /\ pc' = "juejin_checkin"
         /\ UNCHANGED <<i, user_response>>

\* the statement after the call of request_with_retry(method, ...)
ReturnResponse(val) ==
    IF method = "GET"
    THEN /\ user_response' = val
         /\ pc' = "check_cookie_valid"
         /\ UNCHANGED <<i, response>>
    ELSE /\ response' = val
         /\ pc' = "juejin_checkin"
         /\ UNCHANGED <<i, user_response>>

\* end of one loop iteration that did not return
NextIteration ==
    IF HasNextAttempt(i)
    THEN /\ i' = i + 1
         /\ pc' = "request"
         /\ UNCHANGED <<user_response, response>>
    ELSE ReturnResponse(None)

\* one call of requests.request: the attempt's number, how it ended, and
\* the response it returned (None when it raised)
RequestEvent(outcome, r) ==
    Event("request", method, <<i + 1, outcome, r>>)

\* requests.request(...) returns a response: return response
RequestSucceeds ==
    /\ pc = "request"
    /\ \E r \in ResponsesOf(method) :
          /\ events' = Append(events, RequestEvent("response", r))
          /\ ReturnResponse(r)
    /\ cookies' = _parse_cookie(juejin_cookie)
    /\ UNCHANGED <<juejin_cookie, feishu_token, method, cookie_valid, ret, exc>>

\* requests.request(...) raises a RequestException: log, maybe sleep
RequestFails ==
    /\ pc = "request"
    /\ events' = log(Append(events, RequestEvent("RequestException", None)),
                     "request failed", <<i + 1, "Timeout">>)
    /\ IF SleepsAfter(i)
       THEN /\ pc' = "sleep"
            /\ UNCHANGED <<i, user_response, response>>
       ELSE NextIteration
    /\ cookies' = _parse_cookie(juejin_cookie)
    /\ UNCHANGED <<juejin_cookie, feishu_token, method, cookie_valid, ret, exc>>

\* time.sleep(RETRY_INTERVAL)
Sleep ==
    /\ pc = "sleep"
    /\ events' = Append(events, Event("sleep", method, <<RETRY_INTERVAL>>))
    /\ NextIteration
    /\ UNCHANGED <<juejin_cookie, cookies, feishu_token, method, cookie_valid, ret, exc>>

\* requests.request(...) raises an exception that is no RequestException:
\* the except clause does not catch it and it propagates to run()
RequestRaises ==
    /\ pc = "request"
    /\ events' = Append(events, RequestEvent("Exception", None))
    /\ exc' = [type |-> "Exception", msg |-> "transport"]
    /\ pc' = "except"
    /\ cookies' = _parse_cookie(juejin_cookie)
    /\ UNCHANGED <<juejin_cookie, feishu_token, method, i, user_response, cookie_valid,
                   response, ret>>

(***************************************************************************)
(* Responses as the code reads them                                        *)
(***************************************************************************)
\* Response.ok: the status is no 4xx/5xx error status
ok(r) == ~(400 <= r.status_code /\ r.status_code < 600)

\* bool(response), the test of "if not response": None is falsy, and a
\* requests.Response is truthy exactly when it is ok
Truthy(r) == r # None /\ ok(r)

\* response.json() raises a JSONDecodeError on a body that is no JSON
JsonDecodes(r) == r.body.kind = "json"
\* response.json()
json(r) == r.body.value
\* mutant: the notification carries the whole text
TextPrefix_untruncated(r) == r.body.len
\* response.text[:100], as a length
TextPrefix(r) ==
    IF r.body.len < NOTIFY_TEXT_LIMIT THEN r.body.len ELSE NOTIFY_TEXT_LIMIT

JSONDecodeError == [type |-> "JSONDecodeError", msg |-> "Expecting value"]
AttributeError ==
    [type |-> "AttributeError", msg |-> "object has no attribute 'get'"]

(***************************************************************************)
(* check_cookie_valid                                                      *)
(***************************************************************************)
\* mutant: an absent err_no counts as 0
CookieErrNoIsZero_default_zero(result) == get(result, "err_no", 0) = 0
\* result.get("err_no") == 0, result a dict; an absent err_no gives None,
\* which like -1 is not equal to 0
CookieErrNoIsZero(result) == get(result, "err_no", -1) = 0

\* The exception check_cookie_valid raises on response r, NoException if it
\* returns: response.json() on a status-200 body that is no JSON,
\* result.get on a value that is no dict, and .get('user_name') on a "data"
\* that is no dict.
CookieCheckRaises(r) ==
    IF ~Truthy(r) \/ r.status_code # 200 THEN NoException
    ELSE IF ~JsonDecodes(r) THEN JSONDecodeError
    ELSE IF ~IsDict(json(r)) THEN AttributeError
    ELSE IF /\ CookieErrNoIsZero(json(r).d)
            /\ ~IsDict(get(json(r).d, "data", JDict(EmptyDict)))
         THEN AttributeError
    ELSE NoException

\* mutant: the status code is not tested
CookieCheckValue_any_status(r) ==
    /\ Truthy(r)
    /\ JsonDecodes(r)
    /\ IsDict(json(r))
    /\ CookieErrNoIsZero(json(r).d)

\* the value check_cookie_valid returns on response r, when it returns
CookieCheckValue(r) ==
    /\ Truthy(r)
    /\ r.status_code = 200
    /\ CookieErrNoIsZero(json(r).d)

\* the line check_cookie_valid logs before it returns
CookieCheckLog(r) ==
    IF ~Truthy(r)
    THEN LogEvent("cookie check request failed", <<>>)
    ELSE IF r.status_code # 200
    THEN LogEvent("cookie check failed, status", <<r.status_code>>)
    ELSE IF CookieErrNoIsZero(json(r).d)
    THEN LogEvent("cookie valid, user",
                  <<get(get(json(r).d, "data", JDict(EmptyDict)).d,
                        "user_name", "unknown")>>)
    ELSE LogEvent("cookie invalid",
                  <<get(json(r).d, "err_msg", "unknown error")>>)

(***************************************************************************)
(* run, juejin_checkin                                                     *)
(***************************************************************************)
\* run() calls juejin_checkin(), which logs and calls check_cookie_valid(),
\* which logs and calls request_with_retry("GET", user_info_url)
Start ==
    /\ pc = "run"
    /\ events' = log(log(events, "checkin starts", <<>>),
                     "cookie check starts", <<>>)
    /\ method' = "GET"
    /\ i' = 0
    /\ pc' = "request"
    /\ UNCHANGED <<juejin_cookie, cookies, feishu_token, user_response, cookie_valid, response,
                   ret, exc>>

\* check_cookie_valid raises
CookieCheckFails ==
    /\ pc = "check_cookie_valid"
    /\ CookieCheckRaises(user_response) # NoException
    /\ exc' = CookieCheckRaises(user_response)
    /\ pc' = "except"
    /\ UNCHANGED <<juejin_cookie, cookies, feishu_token, method, i, user_response, cookie_valid,
                   response, ret, events>>

\* check_cookie_valid returns False: notify, return False
CookieInvalid ==
    /\ pc = "check_cookie_valid"
    /\ CookieCheckRaises(user_response) = NoException
    /\ ~CookieCheckValue(user_response)
    /\ cookie_valid' = <<FALSE>>
    /\ \E o \in NotifyOutcomes :
          events' = send_feishu_notify(
                        Append(events, CookieCheckLog(user_response)),
                        TITLE_FAILED, <<"cookie invalid or expired">>, o)
    /\ ret' = <<FALSE>>
    /\ pc' = "finally"
    /\ UNCHANGED <<juejin_cookie, cookies, feishu_token, method, i, user_response, response, exc>>

\* check_cookie_valid returns True:
\* response = self.request_with_retry("POST", self.checkin_url)
CookieValid ==
    /\ pc = "check_cookie_valid"
    /\ CookieCheckRaises(user_response) = NoException
    /\ CookieCheckValue(user_response)
    /\ cookie_valid' = <<TRUE>>
    /\ events' = Append(events, CookieCheckLog(user_response))
    /\ method' = "POST"
    /\ i' = 0
    /\ pc' = "request"
    /\ UNCHANGED <<juejin_cookie, cookies, feishu_token, user_response, response, ret, exc>>

\* if not response: log, notify, return False
CheckinRequestFailed ==
    /\ pc = "juejin_checkin"
    /\ ~Truthy(response)
    /\ \E o \in NotifyOutcomes :
          events' = send_feishu_notify(
                        log(events, "checkin request failed after retries",
                            <<>>),
                        TITLE_FAILED, <<"checkin request timeout/error">>, o)
    /\ ret' = <<FALSE>>
    /\ pc' = "finally"
    /\ UNCHANGED <<juejin_cookie, cookies, feishu_token, method, i, user_response, cookie_valid,
                   response, exc>>

\* except json.JSONDecodeError: log the text, notify its prefix, return False
CheckinParseFailed ==
    /\ pc = "juejin_checkin"
    /\ Truthy(response)
    /\ ~JsonDecodes(response)
    /\ \E o \in NotifyOutcomes :
          events' = send_feishu_notify(
                        log(events, "checkin response parse failed",
                            <<response.body.len>>),
                        TITLE_FAILED,
                        <<"bad response", TextPrefix(response)>>, o)
    /\ ret' = <<FALSE>>
    /\ pc' = "finally"
    /\ UNCHANGED <<juejin_cookie, cookies, feishu_token, method, i, user_response, cookie_valid,
                   response, exc>>

\* mutant: an absent err_no defaults to 0
ErrNoOf_default_zero(result) == get(result, "err_no", 0)
\* err_no = result.get("err_no", -1)
ErrNoOf(result) == get(result, "err_no", -1)
\* result.get("data", {})
DataOf(result) == get(result, "data", JDict(EmptyDict))
IsSuccess(err_no) == err_no = 0
IsAlreadyCheckedIn(err_no) == err_no = ALREADY_CHECKED_IN

\* result.get on a result that is no dict, or .get("incr_point") on a "data"
\* that is no dict, raises AttributeError
CheckinRaises ==
    /\ pc = "juejin_checkin"
    /\ Truthy(response)
    /\ JsonDecodes(response)
    /\ \/ ~IsDict(json(response))
       \/ /\ IsDict(json(response))
          /\ IsSuccess(ErrNoOf(json(response).d))
          /\ ~IsDict(DataOf(json(response).d))
    /\ exc' = AttributeError
    /\ pc' = "except"
    /\ UNCHANGED <<juejin_cookie, cookies, feishu_token, method, i, user_response, cookie_valid,
                   response, ret, events>>

\* the f-string success_log
SuccessLog(data) ==
    <<"checkin succeeded, points", get(data, "incr_point", 0),
      get(data, "sum_point", 0)>>

\* mutant: the notifier has no try/except, an exception of the webhook POST
\* escapes it and juejin_checkin does not return
CheckinSuccess_notify_escalates ==
    /\ pc = "juejin_checkin"
    /\ Truthy(response)
    /\ JsonDecodes(response)
    /\ IsDict(json(response))
    /\ IsSuccess(ErrNoOf(json(response).d))
    /\ IsDict(DataOf(json(response).d))
    /\ LET success_log == SuccessLog(DataOf(json(response).d).d)
       IN  \E o \in NotifyOutcomes :
              /\ events' = send_feishu_notify(
                               log(events, success_log[1], Tail(success_log)),
                               TITLE_SUCCESS, success_log, o)
              /\ IF feishu_token /\ o = "exception"
                 THEN /\ exc' = [type |-> "Exception", msg |-> "webhook"]
                      /\ pc' = "except"
                      /\ UNCHANGED ret
                 ELSE /\ ret' = <<TRUE>>
                      /\ pc' = "finally"
                      /\ UNCHANGED exc
    /\ UNCHANGED <<juejin_cookie, cookies, feishu_token, method, i, user_response, cookie_valid,
                   response>>

\* if err_no == 0: log, notify, return True
CheckinSuccess ==
    /\ pc = "juejin_checkin"
    /\ Truthy(response)
    /\ JsonDecodes(response)
    /\ IsDict(json(response))
    /\ IsSuccess(ErrNoOf(json(response).d))
    /\ IsDict(DataOf(json(response).d))
    /\ LET success_log == SuccessLog(DataOf(json(response).d).d)
       IN  \E o \in NotifyOutcomes :
              events' = send_feishu_notify(
                            log(events, success_log[1], Tail(success_log)),
                            TITLE_SUCCESS, success_log, o)
    /\ ret' = <<TRUE>>
    /\ pc' = "finally"
    /\ UNCHANGED <<juejin_cookie, cookies, feishu_token, method, i, user_response, cookie_valid,
                   response, exc>>

\* elif err_no == 165001: log, notify, return True
CheckinAlready ==
    /\ pc = "juejin_checkin"
    /\ Truthy(response)
    /\ JsonDecodes(response)
    /\ IsDict(json(response))
    /\ ~IsSuccess(ErrNoOf(json(response).d))
    /\ IsAlreadyCheckedIn(ErrNoOf(json(response).d))
    /\ \E o \in NotifyOutcomes :
          events' = send_feishu_notify(
                        log(events, "already checked in today", <<>>),
                        TITLE_ALREADY, <<"already checked in today">>, o)
    /\ ret' = <<TRUE>>
    /\ pc' = "finally"
    /\ UNCHANGED <<juejin_cookie, cookies, feishu_token, method, i, user_response, cookie_valid,
                   response, exc>>

\* else: log, notify with err_msg and err_no, return False
CheckinOtherError ==
    /\ pc = "juejin_checkin"
    /\ Truthy(response)
    /\ JsonDecodes(response)
    /\ IsDict(json(response))
    /\ ~IsSuccess(ErrNoOf(json(response).d))
    /\ ~IsAlreadyCheckedIn(ErrNoOf(json(response).d))
    /\ LET err_no == ErrNoOf(json(response).d)
           err_msg == get(json(response).d, "err_msg", "unknown error")
       IN  \E o \in NotifyOutcomes :
              events' = send_feishu_notify(
                            log(events, "checkin failed", <<err_msg, err_no>>),
                            TITLE_FAILED,
                            <<"error reason", err_msg, err_no>>, o)
    /\ ret' = <<FALSE>>
    /\ pc' = "finally"
    /\ UNCHANGED <<juejin_cookie, cookies, feishu_token, method, i, user_response, cookie_valid,
                   response, exc>>

\* mutant: the handler logs the exception and does not notify
Except_no_notify ==
    /\ pc = "except"
    /\ events' = log(events, "checkin process exception", <<exc.msg>>)
    /\ pc' = "finally"
    /\ UNCHANGED <<juejin_cookie, cookies, feishu_token, method, i, user_response, cookie_valid,
                   response, ret, exc>>

\* mutant: the end-of-run line is not in a finally clause, an exception
\* skips it
Except_skips_finally ==
    /\ pc = "except"
    /\ \E o \in NotifyOutcomes :
          events' = send_feishu_notify(
                        log(events, "checkin process exception", <<exc.msg>>),
                        TITLE_EXCEPTION, <<"script error", exc.msg>>, o)
    /\ pc' = "done"
    /\ UNCHANGED <<juejin_cookie, cookies, feishu_token, method, i, user_response, cookie_valid,
                   response, ret, exc>>

\* mutant: the handler reports the exception without its message
Except_generic_message ==
    /\ pc = "except"
    /\ \E o \in NotifyOutcomes :
          events' = send_feishu_notify(
                        log(events, "checkin process exception", <<>>),
                        TITLE_EXCEPTION, <<"script error">>, o)
    /\ pc' = "finally"
    /\ UNCHANGED <<juejin_cookie, cookies, feishu_token, method, i, user_response, cookie_valid,
                   response, ret, exc>>

\* except Exception as e: log, notify
Except ==
    /\ pc = "except"
    /\ \E o \in NotifyOutcomes :
          events' = send_feishu_notify(
                        log(events, "checkin process exception", <<exc.msg>>),
                        TITLE_EXCEPTION, <<"script error", exc.msg>>, o)
    /\ pc' = "finally"
    /\ UNCHANGED <<juejin_cookie, cookies, feishu_token, method, i, user_response, cookie_valid,
                   response, ret, exc>>

\* finally: log
Finally ==
    /\ pc = "finally"
    /\ events' = log(events, "checkin ends", <<>>)
    /\ pc' = "done"
    /\ UNCHANGED <<juejin_cookie, cookies, feishu_token, method, i, user_response, cookie_valid,
                   response, ret, exc>>

(***************************************************************************)
(* Specification                                                           *)
(***************************************************************************)
\* JueJinAutoCheckin(): the token is configured or not
Init ==
    /\ pc = "run"
    /\ juejin_cookie \in RunCookies
    /\ cookies = EmptyDict
    /\ feishu_token \in BOOLEAN
    /\ method = "GET"
    /\ i = 0
    /\ user_response = Unassigned
    /\ cookie_valid = <<>>
    /\ response = Unassigned
    /\ ret = <<>>
    /\ exc = NoException
    /\ events = <<>>

Next ==
    \/ Start
    \/ RequestSucceeds
    \/ RequestFails
    \/ Sleep
    \/ RequestRaises
    \/ CookieCheckFails
    \/ CookieInvalid
    \/ CookieValid
    \/ CheckinRequestFailed
    \/ CheckinParseFailed
    \/ CheckinRaises
    \/ CheckinSuccess
    \/ CheckinAlready
    \/ CheckinOtherError
    \/ Except
    \/ Finally

Spec == Init /\ [][Next]_vars

(***************************************************************************)
(* _parse_cookie on its own: every credential string up to MaxCookieLen    *)
(***************************************************************************)
InitParse ==
    /\ pc = "_parse_cookie"
    /\ juejin_cookie \in CookieStrings
    /\ cookies = EmptyDict
    /\ feishu_token = FALSE
    /\ method = "GET"
    /\ i = 0
    /\ user_response = Unassigned
    /\ cookie_valid = <<>>
    /\ response = Unassigned
    /\ ret = <<>>
    /\ exc = NoException
    /\ events = <<>>

\* cookies = self._parse_cookie()
ParseCookie ==
    /\ pc = "_parse_cookie"
    /\ cookies' = _parse_cookie(juejin_cookie)
    /\ pc' = "parsed"
    /\ UNCHANGED <<juejin_cookie, feishu_token, method, i, user_response,
                   cookie_valid, response, ret, exc, events>>

NextParse == ParseCookie

ParseSpec == InitParse /\ [][NextParse]_vars

TypeOK ==
    /\ pc \in {"run", "request", "sleep", "check_cookie_valid",
               "juejin_checkin", "except", "finally", "done",
               "_parse_cookie", "parsed"}
    /\ feishu_token \in BOOLEAN
    /\ method \in {"GET", "POST"}
    /\ i \in 0 .. (RETRY_TIMES - 1)
    /\ ret \in {<<>>, <<TRUE>>, <<FALSE>>}
    /\ cookie_valid \in {<<>>, <<TRUE>>, <<FALSE>>}

(***************************************************************************)
(* Reading the trace                                                       *)
(***************************************************************************)
Methods == {"GET", "POST"}
Last(sq) == sq[Len(sq)]
\* the attempts of the call request_with_retry(m, ...), in order
Requests(m) ==
    SelectSeq(events, LAMBDA e : e.type = "request" /\ e.tag = m)
\* the sleeps of the call request_with_retry(m, ...)
Sleeps(m) == SelectSeq(events, LAMBDA e : e.type = "sleep" /\ e.tag = m)
\* the invocations of send_feishu_notify
Notifications == SelectSeq(events, LAMBDA e : e.type = "notify")
\* the webhook POSTs
Posts == SelectSeq(events, LAMBDA e : e.type = "post")
\* what the call request_with_retry(m, ...) returned
Returned(m) == IF m = "GET" THEN user_response ELSE response
Outcome(e) == e.args[2]
Failures(m) ==
    SelectSeq(Requests(m), LAMBDA e : Outcome(e) = "RequestException")
\* the attempt numbers of the "request failed" log lines, in order
FailureLogNumbers ==
    LET lines == SelectSeq(events,
                     LAMBDA e : e.type = "log" /\ e.tag = "request failed")
    IN  [j \in 1 .. Len(lines) |-> lines[j].args[1]]
\* positions of the events of the call request_with_retry(m, ...)
CallPositions(m) ==
    { p \in 1 .. Len(events) :
        events[p].type \in {"request", "sleep"} /\ events[p].tag = m }

(***************************************************************************)
(* C1: request_with_retry, k failures then a response (k in 0..2): the     *)
(* wrapper returns the response of attempt k+1, after exactly k+1 attempts *)
(* and exactly k sleeps of RETRY_INTERVAL.                                 *)
(***************************************************************************)
C1_ReturnsFirstResponse ==
    \A m \in Methods :
        LET reqs == Requests(m)
        IN  (reqs # <<>> /\ Outcome(Last(reqs)) = "response") =>
                /\ Len(reqs) <= RETRY_TIMES
                /\ \A j \in 1 .. Len(reqs) : reqs[j].args[1] = j
                /\ \A j \in 1 .. (Len(reqs) - 1) :
                       Outcome(reqs[j]) = "RequestException"
                /\ Returned(m) = Last(reqs).args[3]
                /\ Len(Sleeps(m)) = Len(reqs) - 1
                /\ \A j \in 1 .. Len(Sleeps(m)) :
                       Sleeps(m)[j].args = <<RETRY_INTERVAL>>

\* fail, fail, succeed: the third attempt's response is returned, two sleeps
C1_Witness ==
    /\ Len(Requests("GET")) = 3
    /\ Outcome(Requests("GET")[1]) = "RequestException"
    /\ Outcome(Requests("GET")[2]) = "RequestException"
    /\ Outcome(Requests("GET")[3]) = "response"
    /\ user_response = Requests("GET")[3].args[3]
    /\ Len(Sleeps("GET")) = 2

(***************************************************************************)
(* C2: request_with_retry, every attempt raising a transport exception:    *)
(* the wrapper returns None after exactly RETRY_TIMES attempts and         *)
(* RETRY_TIMES - 1 sleeps; there is never a further attempt, never a sleep *)
(* after the final failure, and the failures are logged with the attempt   *)
(* numbers 1, 2, 3 in order, each right after its attempt.                 *)
(***************************************************************************)
C2_AllAttemptsFail ==
    /\ \A m \in Methods :
           LET reqs == Requests(m)
           IN  /\ Len(reqs) <= RETRY_TIMES
               /\ Len(Sleeps(m)) <= RETRY_TIMES - 1
               /\ Len(Failures(m)) = RETRY_TIMES => Returned(m) = None
               /\ Returned(m) = None =>
                      /\ Len(reqs) = RETRY_TIMES
                      /\ Len(Failures(m)) = RETRY_TIMES
                      /\ Len(Sleeps(m)) = RETRY_TIMES - 1
                      /\ \A p \in CallPositions(m) :
                             events[p].type = "sleep" =>
                                 \E q \in CallPositions(m) :
                                     q > p /\ events[q].type = "request"
    /\ pc = "sleep" => Len(Requests(method)) < RETRY_TIMES
    /\ \A p \in 1 .. Len(events) :
           (events[p].type = "request"
                /\ Outcome(events[p]) = "RequestException") =>
               /\ p < Len(events)
               /\ events[p + 1].type = "log"
               /\ events[p + 1].tag = "request failed"
               /\ events[p + 1].args[1] = events[p].args[1]
    /\ FailureLogNumbers =
           [j \in 1 .. (Len(Failures("GET")) + Len(Failures("POST"))) |->
               IF j <= Len(Failures("GET"))
               THEN j ELSE j - Len(Failures("GET"))]

\* the check-in call failed three times and returned None
C2_Witness ==
    /\ response = None
    /\ Len(Failures("POST")) = 3
    /\ Len(Sleeps("POST")) = 2
    /\ pc = "juejin_checkin"

(***************************************************************************)
(* C3: request_with_retry never retries on an HTTP error status: an        *)
(* attempt that yields a response, whatever its status code, is the last   *)
(* attempt of the call, its response is what the call returns, and no      *)
(* sleep follows it; so at most one attempt of a call is answered.         *)
(***************************************************************************)
C3_NoRetryOnStatus ==
    \A m \in Methods :
        /\ \A p \in CallPositions(m) :
               (events[p].type = "request"
                    /\ Outcome(events[p]) = "response") =>
                   /\ \A q \in CallPositions(m) : q <= p
                   /\ Returned(m) = events[p].args[3]
                   /\ ~(method = m /\ pc \in {"request", "sleep"})
        /\ Len(SelectSeq(Requests(m),
                         LAMBDA e : Outcome(e) = "response")) <= 1

\* the first user-info attempt is answered with status 500: the call is over
C3_Witness ==
    /\ Len(Requests("GET")) = 1
    /\ Outcome(Requests("GET")[1]) = "response"
    /\ user_response.status_code = 500
    /\ pc = "done"

(***************************************************************************)
(* C4: credential validation fails closed.  When the user-info call        *)
(* returned None, or a response whose status is not 200, or a status-200   *)
(* response whose JSON object has an err_no that is not 0 or is absent,    *)
(* check_cookie_valid logs and returns False, and juejin_checkin sends the *)
(* "cookie invalid or expired" failure notification, returns False and     *)
(* ends: no check-in request is ever issued and nothing is raised.         *)
(***************************************************************************)
IsResponse(r) == r # Unassigned /\ r # None
HasJsonObject(r) ==
    IsResponse(r) /\ r.body.kind = "json" /\ r.body.value.t = "dict"
\* the err_no of a JSON object body, -1 standing for an absent one
BodyErrNo(r) ==
    IF "err_no" \in DOMAIN r.body.value.d
    THEN r.body.value.d["err_no"] ELSE -1

InvalidCredentialCase ==
    /\ user_response # Unassigned
    /\ \/ user_response = None
       \/ IsResponse(user_response) /\ user_response.status_code # 200
       \/ /\ HasJsonObject(user_response)
          /\ user_response.status_code = 200
          /\ BodyErrNo(user_response) # 0

\* C4: an invalid-credential answer ends the run with False, the 'cookie
\* invalid' notification and no check-in request
C4_FailsClosed ==
    InvalidCredentialCase =>
        /\ pc \in {"check_cookie_valid", "finally", "done"}
        /\ Requests("POST") = <<>>
        /\ exc = NoException
        /\ pc # "check_cookie_valid" =>
               /\ cookie_valid = <<FALSE>>
               /\ ret = <<FALSE>>
               /\ Notifications =
                      <<Event("notify", TITLE_FAILED,
                              <<"cookie invalid or expired">>)>>
               /\ \E p \in 1 .. Len(events) :
                      /\ events[p].type = "log"
                      /\ events[p].tag \in {"cookie check request failed",
                                            "cookie check failed, status",
                                            "cookie invalid"}

\* a status-200 JSON object without err_no: the run ended without check-in
C4_Witness ==
    /\ pc = "done"
    /\ HasJsonObject(user_response)
    /\ user_response.status_code = 200
    /\ "err_no" \notin DOMAIN user_response.body.value.d
    /\ ret = <<FALSE>>
    /\ Requests("POST") = <<>>

(***************************************************************************)
(* C5: the "request error" branch of juejin_checkin is taken exactly when  *)
(* the check-in call returned None after RETRY_TIMES raising attempts; a   *)
(* check-in response that was received, whatever its status code, is never *)
(* reported as a request error.                                            *)
(***************************************************************************)
RequestErrorReported ==
    \E p \in 1 .. Len(Notifications) :
        Notifications[p].args = <<"checkin request timeout/error">>

\* C5: a request error is reported exactly when the check-in call returned
\* None after RETRY_TIMES raising attempts
C5_RequestErrorOnlyWithoutResponse ==
    pc \in {"finally", "done"} =>
        (RequestErrorReported <=>
            (response = None /\ Len(Failures("POST")) = RETRY_TIMES))

(***************************************************************************)
(* C6: juejin_checkin returns a boolean on every terminal branch, and it   *)
(* returns True if and only if the credential was valid and the check-in   *)
(* response decodes to a JSON object with err_no 0 or 165001.              *)
(***************************************************************************)
CheckinAccepted ==
    /\ cookie_valid = <<TRUE>>
    /\ HasJsonObject(response)
    /\ BodyErrNo(response) \in {0, ALREADY_CHECKED_IN}

\* C6: at the end of the run the return value is True exactly for an accepted
\* check-in, and a boolean whenever nothing was raised
C6_ReturnsTrueIffAccepted ==
    pc = "done" =>
        /\ ret = <<TRUE>> <=> CheckinAccepted
        /\ exc = NoException => ret \in {<<TRUE>>, <<FALSE>>}

(***************************************************************************)
(* C7: the notification matches the interpreted outcome.  For a check-in   *)
(* response that is interpreted (received without an error status, body a  *)
(* JSON object): err_no 0 sends a success notification carrying incr_point *)
(* and sum_point, each 0 when absent; err_no 165001 sends an "already      *)
(* checked in" notification, not a failure; any other err_no sends a       *)
(* failure notification carrying err_msg (default "unknown error") and the *)
(* code.                                                                   *)
(***************************************************************************)
\* data.<key> of a JSON object body, 0 when the key or the data is absent
BodyPoint(r, key) ==
    IF "data" \notin DOMAIN r.body.value.d THEN 0
    ELSE IF r.body.value.d["data"].t # "dict" THEN 0
    ELSE IF key \notin DOMAIN r.body.value.d["data"].d THEN 0
    ELSE r.body.value.d["data"].d[key]
BodyErrMsg(r) ==
    IF "err_msg" \in DOMAIN r.body.value.d
    THEN r.body.value.d["err_msg"] ELSE "unknown error"

ExpectedNotification(r) ==
    IF BodyErrNo(r) = 0
    THEN Event("notify", TITLE_SUCCESS,
               <<"checkin succeeded, points", BodyPoint(r, "incr_point"),
                 BodyPoint(r, "sum_point")>>)
    ELSE IF BodyErrNo(r) = ALREADY_CHECKED_IN
    THEN Event("notify", TITLE_ALREADY, <<"already checked in today">>)
    ELSE Event("notify", TITLE_FAILED,
               <<"error reason", BodyErrMsg(r), BodyErrNo(r)>>)

\* C7: an interpreted check-in response yields exactly the notification its
\* err_no calls for
C7_NotificationMatchesOutcome ==
    (/\ pc = "done"
     /\ HasJsonObject(response)
     /\ response.status_code < 400) =>
        Notifications = <<ExpectedNotification(response)>>

(***************************************************************************)
(* C8: in every execution of run() send_feishu_notify is invoked exactly   *)
(* once: never twice, and once by the time the run reaches its end.        *)
(***************************************************************************)
C8_ExactlyOneNotification ==
    /\ Len(Notifications) <= 1
    /\ pc \in {"finally", "done"} => Len(Notifications) = 1

\* the exception path ended with its one notification
C8_Witness ==
    /\ pc = "done"
    /\ exc # NoException
    /\ Len(Notifications) = 1
    /\ Notifications[1].tag = TITLE_EXCEPTION

(***************************************************************************)
(* C9: run() emits the end-of-run log line on every exit path, the         *)
(* exception path included, and that line is the last event of the run:    *)
(* whenever the line is in the trace it is the trace's last event, and the *)
(* run is over exactly when it is there.                                   *)
(***************************************************************************)
EndLinePositions ==
    { p \in 1 .. Len(events) : events[p] = LogEvent("checkin ends", <<>>) }

\* C9: the end-of-run line is there exactly when the run is over, and is last
C9_EndLineIsLast ==
    /\ pc = "done" <=> EndLinePositions # {}
    /\ EndLinePositions \subseteq {Len(events)}

\* a run whose workflow raised has ended with the end-of-run line
C9_Witness ==
    /\ pc = "done"
    /\ exc # NoException
    /\ Last(events) = LogEvent("checkin ends", <<>>)

(***************************************************************************)
(* C10: an exception raised inside the workflow (a status-200 user-info    *)
(* body that is no JSON, a decoded body that is no object, ...) is caught  *)
(* by run(): it is logged with its message and reported by one "process    *)
(* exception" notification carrying the message, juejin_checkin returns    *)
(* nothing, and the run goes on to its normal end.                         *)
(***************************************************************************)
C10_ExceptionsCaught ==
    /\ exc # NoException =>
           /\ pc \in {"except", "finally", "done"}
           /\ ret = <<>>
           /\ pc # "except" =>
                  /\ \E p \in 1 .. Len(events) :
                         events[p] = LogEvent("checkin process exception",
                                              <<exc.msg>>)
                  /\ Notifications =
                         <<Event("notify", TITLE_EXCEPTION,
                                 <<"script error", exc.msg>>)>>
    /\ (/\ IsResponse(user_response)
        /\ user_response.status_code = 200
        /\ pc # "check_cookie_valid") =>
           /\ user_response.body.kind = "text" => exc = JSONDecodeError
           /\ (/\ user_response.body.kind = "json"
               /\ user_response.body.value.t # "dict") =>
                  exc = AttributeError

\* the user-info body was no JSON: the run ended normally, exception reported
C10_Witness ==
    /\ pc = "done"
    /\ exc = JSONDecodeError
    /\ user_response.status_code = 200
    /\ Len(Notifications) = 1

(***************************************************************************)
(* C11: when the body of the check-in response fails JSON decoding (the    *)
(* response passed the test of line 125 and its body is no JSON),          *)
(* juejin_checkin logs the whole raw text, sends one failure notification  *)
(* carrying at most the first NOTIFY_TEXT_LIMIT characters of it, returns  *)
(* False, raises nothing and interprets no err_no.                         *)
(***************************************************************************)
DecodingFails ==
    /\ cookie_valid = <<TRUE>>
    /\ IsResponse(response)
    /\ response.status_code < 400
    /\ response.body.kind = "text"

SkipLine == LogEvent("feishu token missing, notification skipped", <<>>)
SkipLines == SelectSeq(events, LAMBDA e : e = SkipLine)
NotifyPositions == { p \in 1 .. Len(events) : events[p].type = "notify" }

C12_TokenGuardsThePost ==
    /\ \A p \in NotifyPositions : p < Len(events)
    /\ ~feishu_token =>
           /\ Posts = <<>>
           /\ Len(SkipLines) = Len(Notifications)
           /\ \A p \in NotifyPositions : events[p + 1] = SkipLine
    /\ feishu_token =>
           /\ Len(Posts) = Len(Notifications)
           /\ SkipLines = <<>>
           /\ \A p \in NotifyPositions : events[p + 1].type = "post"

\* without a token the one notification of the run was skipped, not posted
C12_Witness ==
    /\ pc = "done"
    /\ ~feishu_token
    /\ Len(Notifications) = 1
    /\ Posts = <<>>
    /\ Len(SkipLines) = 1

(***************************************************************************)
(* C13: a notification failure never escalates.  Whatever the webhook POST *)
(* does (status 200, another status, an exception), send_feishu_notify     *)
(* logs the result right after it and returns; the exception the run holds *)
(* and the value juejin_checkin returns depend on the kind of notification *)
(* only, never on the POST's outcome, and the run goes on to its end line. *)
(***************************************************************************)
PostPositions == { p \in 1 .. Len(events) : events[p].type = "post" }
ResultLineOf(o) ==
    IF o = "200" THEN LogEvent("feishu notification sent", <<>>)
    ELSE IF o = "non200" THEN LogEvent("feishu notification failed", <<>>)
    ELSE LogEvent("feishu notification exception", <<>>)

C13_NotificationFailureSwallowed ==
    \A p \in PostPositions :
        /\ p < Len(events)
        /\ events[p + 1] = ResultLineOf(events[p].args[1])
        /\ pc \in {"finally", "done"}
        /\ pc = "done" =>
               (p + 2 = Len(events)
                    /\ events[p + 2] = LogEvent("checkin ends", <<>>))
        /\ LET title == events[p - 1].tag
           IN  /\ events[p - 1].type = "notify"
               /\ title = TITLE_EXCEPTION <=> exc # NoException
               /\ title \in {TITLE_SUCCESS, TITLE_ALREADY} <=> ret = <<TRUE>>
               /\ title = TITLE_FAILED <=> ret = <<FALSE>>

\* the POST of the success notification raised: the run still returned True
\* and ended with its end line
C13_Witness ==
    /\ pc = "done"
    /\ Len(Posts) = 1
    /\ Posts[1].args = <<"exception">>
    /\ Notifications[1].tag = TITLE_SUCCESS
    /\ ret = <<TRUE>>
    /\ exc = NoException
    /\ Last(events) = LogEvent("checkin ends", <<>>)

(***************************************************************************)
(* C15: ordering of the workflow.  No check-in POST attempt is made before *)
(* credential validation has finished, and one is made only if validation  *)
(* obtained a status-200 response whose JSON object has err_no 0; on every *)
(* other outcome of validation, an exception raised in it included, the    *)
(* run has no check-in request.                                            *)
(***************************************************************************)
RequestPositions(m) ==
    { p \in 1 .. Len(events) :
        events[p].type = "request" /\ events[p].tag = m }
ValidationPassed ==
    /\ cookie_valid = <<TRUE>>
    /\ HasJsonObject(user_response)
    /\ user_response.status_code = 200
    /\ BodyErrNo(user_response) = 0

C15_CheckinOnlyAfterValidation ==
    /\ (Requests("POST") # <<>> \/ method = "POST") => ValidationPassed
    /\ \A p \in RequestPositions("GET") :
           \A q \in RequestPositions("POST") : p < q
    /\ \A q \in RequestPositions("POST") :
           \E p \in 1 .. (q - 1) :
               events[p].type = "log" /\ events[p].tag = "cookie valid, user"
    /\ (exc # NoException /\ cookie_valid = <<>>) => Requests("POST") = <<>>
    /\ cookie_valid = <<FALSE>> => Requests("POST") = <<>>

\* validation needed three attempts; the check-in POST came after it
C15_Witness ==
    /\ Len(Requests("GET")) = 3
    /\ ValidationPassed
    /\ Len(Requests("POST")) >= 1
    /\ pc = "done"

(***************************************************************************)
(* C17: a decoded check-in response (one that passed the test of line 125  *)
(* and whose body is a JSON object) without an err_no field is never       *)
(* reported as a success: err_no defaults to -1, the "other error" branch  *)
(* logs and sends the failure notification with code -1, and the workflow  *)
(* returns False.                                                          *)
(***************************************************************************)
DecodedWithoutErrNo ==
    /\ cookie_valid = <<TRUE>>
    /\ HasJsonObject(response)
    /\ response.status_code < 400
    /\ "err_no" \notin DOMAIN response.body.value.d

C17_AbsentErrNoIsFailure ==
    DecodedWithoutErrNo =>
        /\ pc \in {"juejin_checkin", "finally", "done"}
        /\ exc = NoException
        /\ ret # <<TRUE>>
        /\ pc # "juejin_checkin" =>
               /\ ret = <<FALSE>>
               /\ Notifications =
                      <<Event("notify", TITLE_FAILED,
                              <<"error reason", BodyErrMsg(response), -1>>)>>
               /\ \E p \in 1 .. Len(events) :
                      events[p] = LogEvent("checkin failed",
                                           <<BodyErrMsg(response), -1>>)

\* a status-200 check-in body {} ended the run with the code -1 failure
C17_Witness ==
    /\ pc = "done"
    /\ DecodedWithoutErrNo
    /\ response.status_code = 200
    /\ ret = <<FALSE>>
    /\ Notifications[1].args = <<"error reason", "unknown error", -1>>

(***************************************************************************)
(* C14: _parse_cookie.  The segments of the credential are the stretches   *)
(* between its semicolons.  The result maps exactly the keys of the        *)
(* segments that contain '=' to their values: a segment is stripped of its *)
(* surrounding spaces and split at its first '=', and of the segments with *)
(* the same key the last one gives the value.  Segments without '=' are    *)
(* dropped, and the empty credential gives the empty mapping.              *)
(***************************************************************************)
MinOf(S) == CHOOSE x \in S : \A y \in S : x <= y
MaxOf(S) == CHOOSE x \in S : \A y \in S : y <= x
\* positions of the semicolons, with the two ends of the string
SegmentBounds ==
    {0, Len(juejin_cookie) + 1}
        \cup { p \in 1 .. Len(juejin_cookie) : juejin_cookie[p] = ";" }
\* the segment that starts after bound a ends before SegmentEnd(a)
SegmentEnd(a) == MinOf({ b \in SegmentBounds : b > a })
SegmentPositions(a) == (a + 1) .. (SegmentEnd(a) - 1)
EqualsPositions(a) ==
    { p \in SegmentPositions(a) : juejin_cookie[p] = "=" }
\* the segments that contain '=', each named by the bound it starts after
PairSegments ==
    { a \in SegmentBounds \ {Len(juejin_cookie) + 1} :
        EqualsPositions(a) # {} }
FirstNonSpace(a) ==
    MinOf({ p \in SegmentPositions(a) : juejin_cookie[p] # " " })
LastNonSpace(a) ==
    MaxOf({ p \in SegmentPositions(a) : juejin_cookie[p] # " " })
SegmentKey(a) ==
    [j \in 1 .. (MinOf(EqualsPositions(a)) - FirstNonSpace(a)) |->
        juejin_cookie[FirstNonSpace(a) + j - 1]]
SegmentValue(a) ==
    [j \in 1 .. (LastNonSpace(a) - MinOf(EqualsPositions(a))) |->
        juejin_cookie[MinOf(EqualsPositions(a)) + j]]

\* C14: the parsed mapping holds exactly the pairs of the segments with '=',
\* the last segment of a key giving its value
C14_ParseCookie ==
    pc = "parsed" =>
        /\ DOMAIN cookies = { SegmentKey(a) : a \in PairSegments }
        /\ \A a \in PairSegments :
               (\A a2 \in PairSegments :
                    SegmentKey(a2) = SegmentKey(a) => a2 <= a) =>
                   cookies[SegmentKey(a)] = SegmentValue(a)
        /\ juejin_cookie = <<>> => cookies = EmptyDict

\* a credential with a repeated key, differing values and a segment without
\* '=' has been parsed
C14_Witness ==
    /\ pc = "parsed"
    /\ \E a \in PairSegments, a2 \in PairSegments :
           /\ a < a2
           /\ SegmentKey(a) = SegmentKey(a2)
           /\ SegmentValue(a) # SegmentValue(a2)
           /\ cookies[SegmentKey(a)] = SegmentValue(a2)
    /\ \E a \in SegmentBounds \ {Len(juejin_cookie) + 1} :
           a \notin PairSegments
    /\ \E a \in PairSegments : juejin_cookie[a + 1] = " "

(***************************************************************************)
(* C16: every run of run() terminates, whatever the transport and the      *)
(* servers do, after at most RETRY_TIMES attempts for validation and       *)
(* RETRY_TIMES for check-in (6 in all), at most 4 sleeps and at most one   *)
(* webhook POST.                                                           *)
(*                                                                         *)
(* Termination is stated with a variant: StepsLeft is a natural number     *)
(* that every step of the program strictly decreases, it is 0 exactly at   *)
(* the end of the run, and before the end a step is always possible.  So a *)
(* run cannot go on for ever nor stop short of its end: it ends within     *)
(* StepsLeft steps of where it is, 15 from the start.                      *)
(***************************************************************************)
ResourceBounds ==
    /\ Len(Requests("GET")) <= RETRY_TIMES
    /\ Len(Requests("POST")) <= RETRY_TIMES
    /\ Len(Requests("GET")) + Len(Requests("POST")) <= 6
    /\ Len(Sleeps("GET")) + Len(Sleeps("POST")) <= 4
    /\ Len(Posts) <= 1

\* the largest number of steps the run can still take
StepsLeft ==
    LET attempts == 2 * (RETRY_TIMES - 1 - i)
        after == IF method = "GET" THEN 9 ELSE 3
    IN  IF pc = "done" THEN 0
        ELSE IF pc = "finally" THEN 1
        ELSE IF pc = "except" THEN 2
        ELSE IF pc = "juejin_checkin" THEN 3
        ELSE IF pc = "check_cookie_valid" THEN 9
        ELSE IF pc = "request" THEN after + 1 + attempts
        ELSE IF pc = "sleep" THEN after + attempts
        ELSE 15

\* C16: the resource bounds always hold, every step brings the end of the
\* run nearer, and the run never stops before its end
C16_TerminatesWithinBounds ==
    /\ []ResourceBounds
    /\ [](StepsLeft \in 0 .. 15 /\ (StepsLeft = 0 <=> pc = "done"))
    /\ [](pc # "done" => ENABLED Next)
    /\ [][StepsLeft' < StepsLeft]_vars

\* a run that used all it may: six attempts, four sleeps, one webhook POST
C16_Witness ==
    /\ pc = "done"
    /\ Len(Requests("GET")) + Len(Requests("POST")) = 6
    /\ Len(Sleeps("GET")) + Len(Sleeps("POST")) = 4
    /\ Len(Posts) = 1

=============================================================================
